---- MODULE Spec2Model ----
(***************************************************************************)
(* Model of the dependent-job composition of                               *)
(* steelscript/appfwk/apps/datasource/modules/analysis.py:                 *)
(* AnalysisTable / AnalysisQuery and FocusedAnalysisTable /                *)
(* FocusedAnalysisQuery, driven by the job framework                       *)
(* (Job, QueryContinue, QueryComplete, QueryError).                        *)
(*                                                                         *)
(* Times and durations are integers counting microseconds, the resolution  *)
(* of datetime.timedelta.                                                  *)
(***************************************************************************)
EXTENDS Integers, Sequences, FiniteSets, TLC

\* ------------------------------------------------------------------ bounds
MaxTable == 2                       \* table ids are 1..MaxTable

TimeSeq == <<10, 20>>               \* the time of row i of a DataFrame
Vals == {1, 2}                      \* cell values of a DataFrame
NameSeq == <<"source", "t1", "t2">> \* keys of the `tables` option, in creation order
Messages == {"timeout", "refused"}  \* messages of failed jobs
Exceptions == {"ValueError"}        \* exceptions a user function raises
Durations == {<<1, "s">>, <<1, "us">>, <<3, "us">>}
Resolutions == {<<1, "ms">>}

TableIds == 1..MaxTable

\* ------------------------------------------------------------ data frames
\* A pandas.DataFrame with columns time, a, b; `origin` tells the object
\* apart: the data of job `id`, a frame built by the user function, or None.
Rows == [time : {TimeSeq[i] : i \in 1..Len(TimeSeq)}, a : Vals, b : Vals]

RowSeqs ==
    UNION {{r \in [1..n -> Rows] : \A i \in 1..n : r[i].time = TimeSeq[i]} :
           n \in 1..Len(TimeSeq)}

NoData == [origin |-> "None", id |-> 0, rows |-> <<>>]

FunctionFrames == {[origin |-> "function", id |-> k, rows |-> <<>>] : k \in 1..2}

JobFrame(j, rows) == [origin |-> "job", id |-> j, rows |-> rows]

\* --------------------------------------------------------- query responses
NoResult == [type |-> "none", data |-> NoData, message |-> <<>>, exception |-> "None"]

QueryComplete(df) ==
    [type |-> "QueryComplete", data |-> df, message |-> <<>>, exception |-> "None"]

QueryError(msg, exc) ==
    [type |-> "QueryError", data |-> NoData, message |-> msg, exception |-> exc]

QueryContinue(callback, jobmap) == [callback |-> callback, jobs |-> jobmap]

NoContinue == [callback |-> "None", jobs |-> <<>>]

\* ------------------------------------------------------------------ state
VARIABLES
    cls,          \* the query class of the table (_query_class)
    options,      \* self.table.options, after process_options
    criteria,     \* self.job.criteria
    jobs,         \* every Job created so far, by id
    pc,           \* "new", "continue" (a QueryContinue is pending), "done"
    cont,         \* the pending QueryContinue
    result,       \* the final QueryComplete / QueryError
    self_tables,  \* self.tables, set by _analyze in compatibility mode
    invoked,      \* the methods of the query invoked so far, in order
    calls,        \* the calls of the user function: arguments and outcome
    reads,        \* ids of the jobs whose data() has been read
    table_options \* the options the table was created with

vars == <<cls, options, criteria, jobs, pc, cont, result, self_tables,
          invoked, calls, reads, table_options>>

\* ---------------------------------------------------------- table options
\* A dict option is None or a map from names to tables: table ids as
\* given to create, table references after process_options.
None == [none |-> TRUE, map |-> <<>>]

Dict(m) == [none |-> FALSE, map |-> m]

Maps(keys) == UNION {[d -> TableIds] : d \in SUBSET keys}

\* tf: None, a plain callable, or a Function instance (with or without params)
NoFunction == [kind |-> "None", params |-> FALSE]

Function(tf) == [kind |-> "Function", params |-> FALSE]

FunctionArgs ==
    {NoFunction, [kind |-> "callable", params |-> FALSE]} \cup
    {[kind |-> "Function", params |-> p] : p \in BOOLEAN}

\* AnalysisTable.create(name, tables=..., related_tables=..., function=...)
AnalysisTableOptions ==
    [tables : {None} \cup {Dict(m) : m \in Maps({"t1", "t2"})},
     related_tables : {None, Dict([k \in {"lookup"} |-> MaxTable])},
     function : FunctionArgs,
     max : {TRUE},
     zoom_duration : {<<1, "s">>},
     zoom_resolution : {<<1, "ms">>}]

\* FocusedAnalysisTable.create(name, max=..., zoom_duration=...,
\*     zoom_resolution=..., tables={'source': t}, related_tables={'template': t})
FocusedAnalysisTableOptions ==
    [tables : {Dict(m) : m \in [{"source"} -> TableIds]},
     related_tables : {Dict(m) : m \in [{"template"} -> TableIds]},
     function : {NoFunction, [kind |-> "callable", params |-> FALSE]},
     max : BOOLEAN,
     zoom_duration : Durations,
     zoom_resolution : Resolutions]

\* Table.to_ref(v) and Table.from_ref(ref)
to_ref(v) == [table_id |-> v]

from_ref(ref) == ref.table_id

Refs(d) == IF d.none THEN d ELSE Dict([k \in DOMAIN d.map |-> to_ref(d.map[k])])

\* mutant: a plain callable is left unwrapped
process_options_nowrap(opts) ==
    [opts EXCEPT !.tables = Refs(opts.tables),
                 !.related_tables = Refs(opts.related_tables)]

process_options(opts) ==
    LET refd == [opts EXCEPT !.tables = Refs(opts.tables),
                             !.related_tables = Refs(opts.related_tables)]
        tf == opts.function
    IN  IF tf.kind # "None" /\ tf.kind # "Function"
        THEN [refd EXCEPT !.function = Function(tf)]
        ELSE refd

\* not d: None and the empty dict are both false
Falsy(d) == d.none \/ DOMAIN d.map = {}

InitialCriteria ==
    [starttime |-> 0, endtime |-> 100, duration |-> 100, resolution |-> 10,
     _orig_starttime |-> 0, _orig_endtime |-> 100, _orig_duration |-> 100]

Init ==
    /\ cls \in {"AnalysisQuery", "FocusedAnalysisQuery"}
    /\ table_options \in IF cls = "AnalysisQuery" THEN AnalysisTableOptions
                         ELSE FocusedAnalysisTableOptions
    /\ options = process_options(table_options)
    /\ criteria = InitialCriteria
    /\ jobs = <<>>
    /\ pc = "new"
    /\ cont = NoContinue
    /\ result = NoResult
    /\ self_tables = None
    /\ invoked = <<>>
    /\ calls = <<>>
    /\ reads = {}

\* ------------------------------------------------------------------- jobs
Job_NEW == "NEW"
Job_RUNNING == "RUNNING"
Job_COMPLETE == "COMPLETE"
Job_ERROR == "ERROR"

Terminal(job) == job.status \in {Job_COMPLETE, Job_ERROR}

\* Job.create(table, criteria, update_progress=..., parent=...)
JobCreate(table, crit, parent, creator) ==
    [table |-> table, criteria |-> crit, status |-> Job_NEW, message |-> "",
     data |-> NoData, parent |-> parent, creator |-> creator]

\* job.data(): the job's DataFrame, None when it has none
data(j) == jobs[j].data

\* mutant: every job is created for the table of the first entry
RECURSIVE CreateJobs_firstref(_, _, _, _)
CreateJobs_firstref(i, tables, js, jm) ==
    IF i > Len(NameSeq) THEN [jobs |-> js, map |-> jm]
    ELSE LET name == NameSeq[i]
             first == CHOOSE n \in DOMAIN tables :
                          \A k \in 1..Len(NameSeq) :
                              NameSeq[k] = n => \A m \in 1..(k - 1) :
                                  NameSeq[m] \notin DOMAIN tables
         IN  IF name \in DOMAIN tables
             THEN LET job == JobCreate(from_ref(tables[first]), criteria, TRUE, "run")
                  IN  CreateJobs_firstref(i + 1, tables, Append(js, job),
                                          jm @@ (name :> (Len(js) + 1)))
             ELSE CreateJobs_firstref(i + 1, tables, js, jm)

\* The jobs a run creates, one per (name, ref) of `tables`; ids follow NameSeq.
RECURSIVE CreateJobs(_, _, _, _)
CreateJobs(i, tables, js, jm) ==
    IF i > Len(NameSeq) THEN [jobs |-> js, map |-> jm]
    ELSE LET name == NameSeq[i]
         IN  IF name \in DOMAIN tables
             THEN LET job == JobCreate(from_ref(tables[name]), criteria, TRUE, "run")
                  IN  CreateJobs(i + 1, tables, Append(js, job),
                                 jm @@ (name :> (Len(js) + 1)))
             ELSE CreateJobs(i + 1, tables, js, jm)

\* mutant: the jobs are created but QueryContinue is given an empty jobs map
run_nowait ==
    /\ pc = "new"
    /\ invoked' = Append(invoked, "run")
    /\ pc' = "continue"
    /\ cont' = QueryContinue("_analyze", <<>>)
    /\ LET tables == options.tables
       IN  IF tables.none THEN jobs' = jobs
           ELSE jobs' = CreateJobs(1, tables.map, jobs, <<>>).jobs
    /\ UNCHANGED <<cls, options, criteria, result, self_tables, calls, reads,
                   table_options>>

\* mutant: without dependent tables run completes at once, with no data
run_skip ==
    /\ pc = "new"
    /\ invoked' = Append(invoked, "run")
    /\ LET tables == options.tables
       IN  IF Falsy(tables)
           THEN /\ pc' = "done"
                /\ result' = QueryComplete(NoData)
                /\ UNCHANGED <<cont, jobs>>
           ELSE LET made == CreateJobs(1, tables.map, jobs, <<>>)
                IN  /\ pc' = "continue"
                    /\ jobs' = made.jobs
                    /\ cont' = QueryContinue("_analyze", made.map)
                    /\ result' = result
    /\ UNCHANGED <<cls, options, criteria, self_tables, calls, reads,
                   table_options>>

\* AnalysisQuery.run
run ==
    /\ pc = "new"
    /\ invoked' = Append(invoked, "run")
    /\ pc' = "continue"
    /\ LET tables == options.tables
       IN  IF Falsy(tables)
           THEN /\ cont' = QueryContinue("_analyze", <<>>)
                /\ jobs' = jobs
           ELSE LET made == CreateJobs(1, tables.map, jobs, <<>>)
                IN  /\ jobs' = made.jobs
                    /\ cont' = QueryContinue("_analyze", made.map)
    /\ UNCHANGED <<cls, options, criteria, result, self_tables, calls, reads,
                   table_options>>

\* The job framework runs each job to a terminal status.
JobStart ==
    \E j \in DOMAIN jobs :
        /\ jobs[j].status = Job_NEW
        /\ jobs' = [jobs EXCEPT ![j].status = Job_RUNNING]
        /\ UNCHANGED <<cls, options, criteria, pc, cont, result, self_tables,
                       invoked, calls, reads, table_options>>

JobComplete ==
    \E j \in DOMAIN jobs, rows \in RowSeqs :
        /\ jobs[j].status = Job_RUNNING
        /\ jobs' = [jobs EXCEPT ![j].status = Job_COMPLETE,
                                ![j].data = JobFrame(j, rows)]
        /\ UNCHANGED <<cls, options, criteria, pc, cont, result, self_tables,
                       invoked, calls, reads, table_options>>

JobError ==
    \E j \in DOMAIN jobs, msg \in Messages :
        /\ jobs[j].status = Job_RUNNING
        /\ jobs' = [jobs EXCEPT ![j].status = Job_ERROR, ![j].message = msg]
        /\ UNCHANGED <<cls, options, criteria, pc, cont, result, self_tables,
                       invoked, calls, reads, table_options>>

\* The framework calls a QueryContinue's callback once all its jobs are done.
Ready ==
    /\ pc = "continue"
    /\ \A n \in DOMAIN cont.jobs : Terminal(jobs[cont.jobs[n]])

\* mutant: the status of the dependent jobs is not looked at
Failed_unchecked(jm) == {}

Failed(jm) == {n \in DOMAIN jm : jobs[jm[n]].status = Job_ERROR}

\* ------------------------------------------------- the user's function
\* options.function(query, tables, criteria): returns a frame or raises
FunctionOutcomes ==
    {[kind |-> "return", val |-> df, exc |-> "None"] : df \in FunctionFrames} \cup
    {[kind |-> "raise", val |-> NoData, exc |-> e] : e \in Exceptions}

\* mutant: no try/except around the call; the exception leaves post_run
post_run_notry(log) ==
    /\ invoked' = Append(log, "post_run")
    /\ pc' = "done"
    /\ IF options.function.kind = "None"
       THEN /\ result' = QueryError(<<"Table has no analysis function defined">>,
                                    "None")
            /\ calls' = calls
       ELSE \E out \in FunctionOutcomes :
                /\ calls' = Append(calls, [tables |-> options.tables,
                                           criteria |-> criteria,
                                           outcome |-> out])
                /\ result' = IF out.kind = "raise"
                             THEN [type |-> "raised", data |-> NoData,
                                   message |-> <<>>, exception |-> out.exc]
                             ELSE QueryComplete(out.val)
    /\ UNCHANGED <<cls, options, criteria, jobs, cont, table_options>>

\* AnalysisQuery.post_run, entered with the invocations logged so far
post_run(log) ==
    /\ invoked' = Append(log, "post_run")
    /\ pc' = "done"
    /\ IF options.function.kind = "None"
       THEN /\ result' = QueryError(<<"Table has no analysis function defined">>,
                                    "None")
            /\ calls' = calls
       ELSE \E out \in FunctionOutcomes :
                /\ calls' = Append(calls, [tables |-> options.tables,
                                           criteria |-> criteria,
                                           outcome |-> out])
                /\ result' = IF out.kind = "raise"
                             THEN QueryError(<<"Analysis function failed">>, out.exc)
                             ELSE QueryComplete(out.val)
    /\ UNCHANGED <<cls, options, criteria, jobs, cont, table_options>>

\* ------------------------------------------- FocusedAnalysisQuery.analyze
ColSeq == <<"a", "b">>

RECURSIVE SumTo(_, _, _)
SumTo(rows, c, n) == IF n = 0 THEN 0 ELSE rows[n][c] + SumTo(rows, c, n - 1)

ColSum(rows, c) == SumTo(rows, c, Len(rows))

ColMax(rows, c) ==
    CHOOSE v \in {rows[i][c] : i \in 1..Len(rows)} :
        \A i \in 1..Len(rows) : rows[i][c] <= v

ColMin(rows, c) ==
    CHOOSE v \in {rows[i][c] : i \in 1..Len(rows)} :
        \A i \in 1..Len(rows) : rows[i][c] >= v

\* x(c1) / mean(c1) < x(c2) / mean(c2), the means being sum / len and positive
RatioLess(rows, x1, c1, x2, c2) == x1 * ColSum(rows, c2) < x2 * ColSum(rows, c1)

First(S) == CHOOSE i \in S : \A k \in S : i <= k

\* (data.max() / data.mean()).idxmax(): the first column of the largest ratio
MaxColumn(rows) ==
    ColSeq[First({i \in 1..Len(ColSeq) : \A k \in 1..Len(ColSeq) :
        ~RatioLess(rows, ColMax(rows, ColSeq[i]), ColSeq[i],
                         ColMax(rows, ColSeq[k]), ColSeq[k])})]

\* (data.min() / data.mean()).idxmin(): the first column of the smallest ratio
MinColumn(rows) ==
    ColSeq[First({i \in 1..Len(ColSeq) : \A k \in 1..Len(ColSeq) :
        ~RatioLess(rows, ColMin(rows, ColSeq[k]), ColSeq[k],
                         ColMin(rows, ColSeq[i]), ColSeq[i])})]

\* data.ix[data[idx].idxmax()] and data.ix[data[idx].idxmin()]
FocusRow(rows, max) ==
    IF max
    THEN LET idx == MaxColumn(rows)
         IN  rows[First({i \in 1..Len(rows) : rows[i][idx] = ColMax(rows, idx)})]
    ELSE LET idx == MinColumn(rows)
         IN  rows[First({i \in 1..Len(rows) : rows[i][idx] = ColMin(rows, idx)})]

\* steelscript.common.timeutils.parse_timedelta: microseconds of "<n><unit>"
UnitMicroseconds(unit) ==
    CASE unit = "us" -> 1
      [] unit = "ms" -> 1000
      [] unit = "s" -> 1000000

parse_timedelta(s) == s[1] * UnitMicroseconds(s[2])

\* mutant: the duration is not halved
Half_whole(duration) == duration

\* timedelta / 2 keeps whole microseconds
Half(duration) == duration \div 2

FocusCriteria(crit, ftime, duration, resolution) ==
    LET stime == ftime - Half(duration)
        etime == ftime + Half(duration)
    IN  [crit EXCEPT !.resolution = resolution,
                     !.duration = duration,
                     !._orig_duration = duration,
                     !.starttime = stime,
                     !._orig_starttime = stime,
                     !.endtime = etime,
                     !._orig_endtime = etime]

analyze(jm, log) ==
    LET basetable == from_ref(options.related_tables.map["template"])
        frame == data(jm["source"])
        frow == FocusRow(frame.rows, options.max)
        ftime == frow.time
        duration == parse_timedelta(options.zoom_duration)
        resolution == parse_timedelta(options.zoom_resolution)
        crit == FocusCriteria(criteria, ftime, duration, resolution)
    IN  /\ invoked' = Append(log, "analyze")
        /\ reads' = reads \cup {jm["source"]}
        /\ criteria' = crit
        /\ jobs' = Append(jobs, JobCreate(basetable, crit, FALSE, "analyze"))
        /\ cont' = QueryContinue("finish", [k \in {"job"} |-> Len(jobs) + 1])
        /\ pc' = "continue"
        /\ UNCHANGED <<cls, options, result, self_tables, calls, table_options>>

\* hasattr(self, 'analyze')
HasAnalyze == cls = "FocusedAnalysisQuery"

\* AnalysisQuery._analyze, the callback of run's QueryContinue
_analyze ==
    /\ Ready
    /\ cont.callback = "_analyze"
    /\ LET jm == cont.jobs
           log == Append(invoked, "_analyze")
       IN  IF Failed(jm) # {}
           THEN /\ \E name \in Failed(jm) :
                       result' = QueryError(<<"Dependent Job failed", name,
                                              jobs[jm[name]].message>>, "None")
                /\ invoked' = log
                /\ pc' = "done"
                /\ UNCHANGED <<cls, options, criteria, jobs, cont, self_tables,
                               calls, reads, table_options>>
           ELSE IF HasAnalyze
                THEN analyze(jm, log)
                ELSE /\ self_tables' = Dict([n \in DOMAIN jm |-> data(jm[n])])
                     /\ reads' = reads \cup {jm[n] : n \in DOMAIN jm}
                     /\ post_run(log)

\* mutant: finish returns the data of the 'source' job
finish_source ==
    /\ Ready
    /\ cont.callback = "finish"
    /\ invoked' = Append(invoked, "finish")
    /\ reads' = reads \cup {1}
    /\ result' = QueryComplete(data(1))
    /\ pc' = "done"
    /\ UNCHANGED <<cls, options, criteria, jobs, cont, self_tables, calls,
                   table_options>>

\* mutant: finish hands its jobs back to itself instead of completing
finish_again ==
    /\ Ready
    /\ cont.callback = "finish"
    /\ Len(invoked) < 6
    /\ invoked' = Append(invoked, "finish")
    /\ cont' = QueryContinue("finish", cont.jobs)
    /\ UNCHANGED <<cls, options, criteria, jobs, pc, result, self_tables, calls,
                   reads, table_options>>

\* FocusedAnalysisQuery.finish, the callback of analyze's QueryContinue
finish ==
    /\ Ready
    /\ cont.callback = "finish"
    /\ invoked' = Append(invoked, "finish")
    /\ reads' = reads \cup {cont.jobs["job"]}
    /\ result' = QueryComplete(data(cont.jobs["job"]))
    /\ pc' = "done"
    /\ UNCHANGED <<cls, options, criteria, jobs, cont, self_tables, calls,
                   table_options>>

Next == run \/ JobStart \/ JobComplete \/ JobError \/ _analyze \/ finish

Spec == Init /\ [][Next]_vars

\* A smaller set of tables for the fair specification: every shape of the
\* options, fewer table ids and zoom settings.
FairOptions ==
    IF cls = "AnalysisQuery"
    THEN {o \in AnalysisTableOptions :
              /\ o.related_tables.none
              /\ o.function.kind \in {"None", "callable"}
              /\ o.tables.none \/ \A n \in DOMAIN o.tables.map : o.tables.map[n] = 1}
    ELSE {o \in FocusedAnalysisTableOptions :
              /\ o.function.kind = "None"
              /\ o.tables.map["source"] = 1
              /\ o.related_tables.map["template"] = MaxTable
              /\ o.zoom_duration = <<3, "us">>}

FairInit == Init /\ table_options \in FairOptions

\* The framework runs the query, runs every job to a terminal status and
\* calls a pending callback once its jobs are terminal.
FairSpec ==
    /\ FairInit
    /\ [][Next]_vars
    /\ WF_vars(run)
    /\ WF_vars(JobStart)
    /\ WF_vars(JobComplete \/ JobError)
    /\ WF_vars(_analyze)
    /\ WF_vars(finish)

\* ================================================================ claims
Invoked(m) == \E i \in 1..Len(invoked) : invoked[i] = m

RunJobs == {j \in DOMAIN jobs : jobs[j].creator = "run"}

FollowUpJobs == {j \in DOMAIN jobs : jobs[j].creator = "analyze"}

DependentNames == IF options.tables.none THEN {} ELSE DOMAIN options.tables.map

Continuations ==
    Cardinality({i \in 1..Len(invoked) : invoked[i] \in {"_analyze", "finish"}})

Final == pc = "done"

\* C1: run only creates the dependent jobs and returns
\* QueryContinue(_analyze, jobs) without invoking the analysis; analyze,
\* post_run and the user function happen only once every job created by run
\* has reached a terminal status.
C1_DependentsRunFirst ==
    /\ (Invoked("run") /\ ~Invoked("_analyze")) =>
           /\ invoked = <<"run">>
           /\ calls = <<>>
           /\ result = NoResult
           /\ pc = "continue"
           /\ cont.callback = "_analyze"
           /\ {cont.jobs[n] : n \in DOMAIN cont.jobs} = RunJobs
    /\ (Invoked("analyze") \/ Invoked("post_run") \/ calls # <<>>) =>
           \A j \in RunJobs : Terminal(jobs[j])

C1_Witness ==
    /\ cls = "AnalysisQuery"
    /\ Cardinality(RunJobs) = 2
    /\ Invoked("post_run")
    /\ Len(calls) = 1
    /\ \E j \in RunJobs : jobs[j].status = Job_COMPLETE

\* C2: when _analyze is called with a jobs map holding a job of status ERROR,
\* the result is a QueryError naming a failed dependent job and carrying its
\* message; analyze, post_run and the user function are not invoked, no
\* job's data() is read and no job is created.
C2_DependentErrorSurfaced ==
    (/\ Invoked("_analyze")
     /\ \E n \in DOMAIN cont.jobs : cont.callback = "_analyze"
                                    /\ jobs[cont.jobs[n]].status = "ERROR") =>
        /\ result.type = "QueryError"
        /\ \E n \in DOMAIN cont.jobs :
               /\ jobs[cont.jobs[n]].status = "ERROR"
               /\ result.message = <<"Dependent Job failed", n,
                                     jobs[cont.jobs[n]].message>>
        /\ ~Invoked("analyze")
        /\ ~Invoked("post_run")
        /\ calls = <<>>
        /\ reads = {}
        /\ DOMAIN jobs = RunJobs
        /\ Final

C2_Witness ==
    /\ Invoked("_analyze")
    /\ Cardinality(DOMAIN cont.jobs) = 2
    /\ \E n, m \in DOMAIN cont.jobs :
           /\ jobs[cont.jobs[n]].status = "ERROR"
           /\ jobs[cont.jobs[m]].status = "COMPLETE"
    /\ result.type = "QueryError"

\* C3: when post_run calls the user function, its tables argument maps each
\* dependent table name to the data of that table's completed job, the map
\* _analyze stores in self.tables.
C3_FunctionGetsDataFrames ==
    \A i \in 1..Len(calls) :
        /\ DOMAIN calls[i].tables.map = DependentNames
        /\ \A n \in DependentNames :
               /\ calls[i].tables.map[n] = self_tables.map[n]
               /\ calls[i].tables.map[n] = jobs[cont.jobs[n]].data

\* the rows of the data of the job run created for 'source'
SourceRows == jobs[CHOOSE j \in RunJobs : TRUE].data.rows

\* C4 as stated: the follow-up criteria's window contains the time of the
\* extremum row, is centred on it, and endtime - starttime equals the
\* criteria duration, for every zoom_duration.
IsExtremum(rows, i) ==
    \E c \in {"a", "b"} :
        \A k \in 1..Len(rows) :
            IF options.max THEN rows[k][c] <= rows[i][c]
            ELSE rows[k][c] >= rows[i][c]

Micros(s) ==
    s[1] * (IF s[2] = "us" THEN 1 ELSE IF s[2] = "ms" THEN 1000 ELSE 1000000)

C4_WindowSpansDuration ==
    \A j \in FollowUpJobs :
        LET rows == SourceRows
            c == jobs[j].criteria
        IN  \E i \in 1..Len(rows) :
                /\ IsExtremum(rows, i)
                /\ c.starttime <= rows[i].time
                /\ rows[i].time <= c.endtime
                /\ rows[i].time - c.starttime = c.endtime - rows[i].time
                /\ c.duration = Micros(options.zoom_duration)
                /\ c.endtime - c.starttime = c.duration

\* C4, amended: with t the time of the selected extremum row and d the parsed
\* zoom_duration in microseconds, the follow-up criteria has starttime =
\* t - d div 2, endtime = t + d div 2, duration = d, resolution = the parsed
\* zoom_resolution and every _orig_ field equal to its counterpart; the
\* window contains t, is centred on t, and endtime - starttime = 2 * (d div 2),
\* which is the criteria duration when d is an even number of microseconds
\* and one microsecond less when d is odd.
C4_FocusWindow ==
    \A j \in FollowUpJobs :
        LET rows == SourceRows
            c == jobs[j].criteria
            d == Micros(options.zoom_duration)
        IN  /\ c = criteria
            /\ \E i \in 1..Len(rows) :
                   LET t == rows[i].time
                   IN  /\ IsExtremum(rows, i)
                       /\ c.starttime = t - (d \div 2)
                       /\ c.endtime = t + (d \div 2)
                       /\ c.starttime <= t /\ t <= c.endtime
                       /\ t - c.starttime = c.endtime - t
            /\ c.duration = d
            /\ c.resolution = Micros(options.zoom_resolution)
            /\ c._orig_starttime = c.starttime
            /\ c._orig_endtime = c.endtime
            /\ c._orig_duration = c.duration
            /\ c.endtime - c.starttime = 2 * (d \div 2)
            /\ (d % 2 = 0) => c.endtime - c.starttime = c.duration
            /\ (d % 2 = 1) => c.endtime - c.starttime = c.duration - 1

C4_Witness ==
    /\ FollowUpJobs # {}
    /\ options.zoom_duration = <<3, "us">>
    /\ ~options.max
    /\ criteria.starttime = 19
    /\ criteria.endtime = 21

C6_NoCompleteAfterError ==
    result.type = "QueryComplete" =>
        \A j \in DOMAIN jobs : jobs[j].status # "ERROR"

\* C7: an AnalysisTable created with an empty or absent tables option and a
\* function, plain callable or Function instance, still produces data: run
\* creates no job and returns QueryContinue(_analyze, {}), _analyze invokes
\* the function exactly once, and the value the function returns is carried
\* by the final QueryComplete.
C7_EmptyTablesStillProduce ==
    (/\ cls = "AnalysisQuery"
     /\ table_options.tables.none \/ DOMAIN table_options.tables.map = {}
     /\ table_options.function.kind \in {"callable", "Function"}) =>
        /\ options.function.kind = "Function"
        /\ jobs = <<>>
        /\ Invoked("run") => cont = [callback |-> "_analyze", jobs |-> <<>>]
        /\ invoked \in {<<>>, <<"run">>, <<"run", "_analyze", "post_run">>}
        /\ ~Final => calls = <<>> /\ result = NoResult
        /\ Final =>
               /\ Len(calls) = 1
               /\ reads = {}
               /\ calls[1].outcome.kind = "return" =>
                      result = QueryComplete(calls[1].outcome.val)

C7_Witness ==
    /\ cls = "AnalysisQuery"
    /\ table_options.tables = Dict(<<>>)
    /\ table_options.function.kind = "callable"
    /\ Final
    /\ Len(calls) = 1
    /\ result.type = "QueryComplete"
    /\ result.data.origin = "function"

\* C8: run creates exactly one job per entry of `tables`: the jobs map of the
\* QueryContinue has the key set of `tables`, the job under each name is for
\* the table referenced under that name and has the query job's criteria;
\* tables listed only in `related_tables` get no job.
C8_OneJobPerTable ==
    Invoked("run") =>
        /\ Cardinality(RunJobs) = Cardinality(DependentNames)
        /\ \A j \in RunJobs :
               /\ jobs[j].criteria = InitialCriteria
               /\ \E n \in DependentNames :
                      jobs[j].table = options.tables.map[n].table_id
        /\ cont.callback = "_analyze" =>
               /\ DOMAIN cont.jobs = DependentNames
               /\ {cont.jobs[n] : n \in DependentNames} = RunJobs
               /\ \A n \in DependentNames :
                      jobs[cont.jobs[n]].table = options.tables.map[n].table_id

C8_Witness ==
    /\ cls = "AnalysisQuery"
    /\ Invoked("run")
    /\ DependentNames = {"t1", "t2"}
    /\ options.tables.map["t1"].table_id = 2
    /\ options.tables.map["t2"].table_id = 1
    /\ ~options.related_tables.none
    /\ Cardinality(RunJobs) = 2
    /\ jobs[cont.jobs["t1"]].table = 2
    /\ jobs[cont.jobs["t2"]].table = 1

\* C9: post_run returns exactly one result and never raises: QueryError when
\* the table has no function, which is then not called; QueryError with the
\* exception attached when the function raises; otherwise QueryComplete
\* carrying the value the function returned.
C9_PostRunResult ==
    Invoked("post_run") =>
        /\ Final
        /\ IF options.function.kind = "None"
           THEN /\ result.type = "QueryError"
                /\ calls = <<>>
           ELSE /\ Len(calls) = 1
                /\ IF calls[1].outcome.kind = "raise"
                   THEN /\ result.type = "QueryError"
                        /\ result.exception = calls[1].outcome.exc
                   ELSE /\ result.type = "QueryComplete"
                        /\ result.data = calls[1].outcome.val

C9_Witness ==
    /\ Invoked("post_run")
    /\ Len(calls) = 1
    /\ calls[1].outcome.kind = "raise"
    /\ result.type = "QueryError"
    /\ result.exception = "ValueError"

\* C10: when every job reaches a terminal status and the framework calls each
\* pending callback, every query ends with exactly one final result, after
\* exactly one continuation for AnalysisQuery and at most two for
\* FocusedAnalysisQuery, and no method of the query is entered twice.
C10_Steps ==
    /\ \A i, k \in 1..Len(invoked) : invoked[i] = invoked[k] => i = k
    /\ ~Final => result = NoResult
    /\ Final =>
           /\ result.type \in {"QueryComplete", "QueryError"}
           /\ cls = "AnalysisQuery" => Continuations = 1
           /\ cls = "FocusedAnalysisQuery" => Continuations \in {1, 2}

====
